---- MODULE Spec2Model ----
(***************************************************************************)
(* Model of tools/buildfarm-indexer.py: one run of the script is a "pass"  *)
(* (shard map, roster snapshot, scan-and-scrub, cleanup) against a Redis   *)
(* cluster.  The cluster is modelled by what its commands do: a set key    *)
(* whose member set is empty does not exist (Redis keeps no empty sets).   *)
(***************************************************************************)
EXTENDS Integers, Sequences, FiniteSets, TLC

\* ---------------------------------------------------------------- bounds
MaxCounter == 3          \* candidate keys "1" .. "MaxCounter" are hashed
MaxCursor == 1           \* a node's SCAN chain ends after at most MaxCursor+1 calls
MaxExternalEvents == 1   \* roster changes and cache writes by other clients
MaxDeclined == 1         \* nodes whose page a handler may answer with False

\* ------------------------------------------------------ the cluster's shape
Slots == 0 .. 1                       \* set(range(0, 16384)), scaled down
Masters == {"n1", "n2"}               \* nodes.all_masters()
MasterOrder == <<"n1", "n2">>         \* iteration order of the cursors dict
WorkerIds == {"w1", "w2"}
Digests == {"digestA", "digestB"}

SlotOwner(s) == IF s = 0 THEN "n1" ELSE "n2"

\* ------------------------------------------------------------------ keys
\* A key is a pair <<kind, text>>: "num" is the decimal text of a counter,
\* "iw" is "{<text>}:intersecting-workers", "cas" is
\* "ContentAddressableStorage:<digest>".
Str(n) == <<"num", n>>
CasName(d) == <<"cas", d>>
SetKey(nodeKey) == <<"iw", nodeKey[2]>>

Candidates == {Str(n) : n \in 1 .. MaxCounter}
CasKeys == {CasName(d) : d \in Digests}
SetKeys == {SetKey(c) : c \in Candidates}
Keys == CasKeys \cup SetKeys

\* The part of a key the cluster hashes: the text between { and } if any.
HashTag(k) == IF k[1] = "iw" THEN <<"num", k[2]>> ELSE k

\* Cursors: the start sentinel is the string "0", every cursor parsed from a
\* response is an integer; a string never equals an integer.
StartSentinel == <<"str", 0>>
EndSentinel == <<"int", 0>>
ParseCursor(v) == <<"int", v>>

VARIABLES
  pc,          \* position of the script
  crc,         \* the cluster's hash of every hashed text (never changes)
  store,       \* key -> member set of the set stored there ({} = no key)
  roster,      \* hkeys of the Workers hash
  slots,       \* line 22: slots still without a representative
  node_key,    \* line 24: the counter
  node_keys,   \* line 25: slot -> representative key
  workers,     \* line 33: the roster as read by this pass
  cursors,     \* map_cas_page: node -> cursor
  conns,       \* map_cas_page: nodes whose connection is checked out
  pos,         \* map_cas_page: index in MasterOrder of the for loop
  processed,   \* Indexer.processed
  acquired,    \* pool: get_connection_by_node calls of this pass
  released,    \* pool: release calls of this pass
  scans,       \* node -> its SCAN calls of this pass: how many, keys returned,
               \* names returned, names added to processed
  last,        \* the exchange made by the latest iteration of the loops of
               \* lines 56-57: node, cursor sent, commands the node executed
  declined,    \* nodes for a page of which the handler returned False
  scanStart,   \* index entries present when this pass's scan began
  prePass,     \* index entries when this pass started
  extInPass,   \* an external write happened since this pass started
  cleanSince,  \* a pass has completed, and no roster change or external write
               \* since that pass started
  hadStale,    \* this pass's snapshot found a liveness set of another roster
  abortedScan, \* the run before this one ended by an exception in map_cas_page,
               \* and this run has not reached line 43
  quiet,       \* no roster change or external write since the first of the
               \* runs that were re-run after an exception in map_cas_page
  origin,      \* while quiet: the index entries when that first run started;
               \* otherwise prePass
  events       \* roster changes and cache writes so far

vars == <<pc, crc, store, roster, slots, node_key, node_keys, workers, cursors,
          conns, pos, processed, acquired, released, scans, last, declined,
          scanStart, prePass, extInPass, cleanSince, hadStale, abortedScan,
          origin, quiet, events>>

keyslot(k) == crc[HashTag(k)]

CasPart(st) == [k \in CasKeys |-> st[k]]
EmptyMap == [s \in {} |-> Str(0)]
NoScans ==
  [n \in Masters |-> [calls |-> 0, keys |-> {}, delivered |-> 0, count |-> 0]]
NoExchange ==
  [node |-> "", sent |-> StartSentinel, ok |-> FALSE, via |-> "", cmds |-> {},
   names |-> {}, stale |-> FALSE, ext |-> FALSE]

\* ------------------------------------------------------------------ Init
\* The loop of line 26 stops at the first counter value by which every slot
\* has been hit, so the hash of a later candidate is never computed; such
\* values are fixed to 0 instead of being enumerated.
NeverHashed(h, n) == {h[Str(j)] : j \in 1 .. n - 1} = Slots

\* the index before the first pass: one entry held by every worker, the
\* others by one worker only
InitialEntries ==
  [k \in CasKeys |-> IF k = CasName("digestA") THEN WorkerIds ELSE {"w2"}]

Init ==
  /\ pc = "resolve"
  /\ crc \in [Candidates \cup CasKeys -> Slots]
  /\ \A n \in 1 .. MaxCounter : NeverHashed(crc, n) => crc[Str(n)] = 0
  /\ store = [k \in Keys |-> IF k \in CasKeys THEN InitialEntries[k] ELSE {}]
  /\ roster \in SUBSET WorkerIds
  /\ slots = Slots
  /\ node_key = 0
  /\ node_keys = EmptyMap
  /\ workers = {}
  /\ cursors = [n \in Masters |-> StartSentinel]
  /\ conns = {}
  /\ pos = 0
  /\ processed = 0
  /\ acquired = 0
  /\ released = 0
  /\ scans = NoScans
  /\ last = NoExchange
  /\ declined = {}
  /\ scanStart = {}
  /\ prePass = CasPart(store)
  /\ extInPass = FALSE
  /\ cleanSince = FALSE
  /\ hadStale = FALSE
  /\ abortedScan = FALSE
  /\ origin = CasPart(store)
  /\ quiet = TRUE
  /\ events = 0

\* ------------------------------------------------- Shard Map, lines 22-31
\* a plausible slip: the test of line 29 left out, the last candidate wins
RecordKey_Last(nk, sl, slot, key) == (slot :> key) @@ nk

\* line 29-31: the first candidate seen for a slot is kept
RecordKey(nk, sl, slot, key) ==
  IF slot \in sl THEN (slot :> key) @@ nk ELSE nk

Resolve ==
  /\ pc = "resolve"
  /\ slots # {}
  /\ node_key < MaxCounter
  /\ LET k == node_key + 1
         slot == keyslot(Str(k))
     IN /\ node_key' = k
        /\ node_keys' = RecordKey(node_keys, slots, slot, Str(k))
        /\ slots' = slots \ {slot}
  /\ UNCHANGED <<pc, crc, store, roster, workers, cursors, conns, pos,
                 processed, acquired, released, scans, last, declined,
                 scanStart, prePass, extInPass, cleanSince, hadStale,
                 abortedScan, origin, quiet, events>>

\* -------------------------------------------------- the cluster's commands
delete(st, k) == [st EXCEPT ![k] = {}]
sadd(st, k, members) == [st EXCEPT ![k] = @ \cup members]
\* SADD with no member is rejected: "wrong number of arguments"
SaddAccepted(members) == members # {}
\* a plausible slip: sdiffstore in place of sinterstore
sdiffstore(st, dest, a, b) == [st EXCEPT ![dest] = st[a] \ st[b]]
\* a plausible slip: sunionstore in place of sinterstore
sunionstore(st, dest, a, b) == [st EXCEPT ![dest] = st[a] \cup st[b]]
sinterstore(st, dest, a, b) == [st EXCEPT ![dest] = st[a] \cap st[b]]
\* a node executes a multi-key command only on keys of one slot that it owns
Accepts(node, ks) ==
  \A k \in ks : SlotOwner(keyslot(k)) = node /\ \A j \in ks : keyslot(j) = keyslot(k)

\* ------------------------------------------- Roster Snapshot, lines 33-43
RepSetKeys == {SetKey(node_keys[s]) : s \in DOMAIN node_keys}

\* a plausible slip: line 41 left out
SnapshotWrite_NoDelete(st, k, ws) ==
  IF SaddAccepted(ws) THEN sadd(st, k, ws) ELSE st

\* lines 41-42: delete, then sadd of the whole roster
SnapshotWrite(st, k, ws) ==
  IF SaddAccepted(ws) THEN sadd(delete(st, k), k, ws) ELSE delete(st, k)

SnapshotPipeline(st, ws) ==
  [k \in Keys |-> IF k \in RepSetKeys THEN SnapshotWrite(st, k, ws)[k] ELSE st[k]]

\* a plausible slip: cleanup in a finally clause around line 116
Uncaught_Finally(where) == "cleanup"

\* Nothing catches an exception: the script ends where it was raised.
Uncaught(where) == "failed_" \o where

\* The loop of line 26 has ended; lines 33-43.  p.execute() raises the first
\* error reply after every command was sent.
Snapshot ==
  /\ pc = "resolve"
  /\ slots = {}
  /\ workers' = roster
  /\ hadStale' = \E k \in RepSetKeys : store[k] # {} /\ store[k] # roster
  /\ abortedScan' = FALSE
  /\ store' = SnapshotPipeline(store, roster)
  /\ pc' = IF SaddAccepted(roster) THEN "map" ELSE Uncaught("snapshot")
  /\ UNCHANGED <<crc, roster, slots, node_key, node_keys, cursors, conns, pos,
                 processed, acquired, released, scans, last, declined,
                 scanStart, prePass, extInPass, cleanSince, origin, quiet,
                 events>>

\* ------------------------------------------ Cluster Scanner, lines 49-80
\* keys of a node that SCAN ... MATCH "ContentAddressableStorage:*" can return
Present(st, node) ==
  {k \in CasKeys : st[k] # {} /\ SlotOwner(keyslot(k)) = node}

\* lines 50-54
Acquire ==
  /\ pc = "map"
  /\ cursors' = [n \in Masters |-> StartSentinel]
  /\ conns' = Masters
  /\ acquired' = acquired + Cardinality(Masters)
  /\ scanStart' = {k \in CasKeys : store[k] # {}}
  /\ pc' = "while"
  /\ UNCHANGED <<crc, store, roster, slots, node_key, node_keys, workers, pos,
                 processed, released, scans, last, declined, prePass,
                 extInPass, cleanSince, hadStale, abortedScan, origin, quiet,
                 events>>

\* a plausible slip: the comparison made with the string "0"
Exhausted_Str(c) == c = StartSentinel

\* the comparison cursors[node] == 0: with the integer 0
Exhausted(c) == c = EndSentinel

\* a plausible slip: the loop ends as soon as one node is exhausted
AllExhausted_Any(cs) == \E n \in Masters : Exhausted(cs[n])

\* line 56
AllExhausted(cs) == \A n \in Masters : Exhausted(cs[n])

\* a plausible slip: the test of line 58 left out
SkipNode_Never(c) == FALSE

\* line 58
SkipNode(c) == Exhausted(c)

\* line 56 true: enter the for loop of line 57
RoundStart ==
  /\ pc = "while"
  /\ ~AllExhausted(cursors)
  /\ pc' = "for"
  /\ pos' = 1
  /\ last' = NoExchange
  /\ UNCHANGED <<crc, store, roster, slots, node_key, node_keys, workers,
                 cursors, conns, processed, acquired, released, scans,
                 declined, scanStart, prePass, extInPass, cleanSince,
                 hadStale, abortedScan, origin, quiet, events>>

\* line 56 false: lines 79-80, map_cas_page returns
ScanReturn ==
  /\ pc = "while"
  /\ AllExhausted(cursors)
  /\ released' = released + Cardinality(conns)
  /\ conns' = {}
  /\ last' = NoExchange
  /\ pc' = "cleanup"
  /\ UNCHANGED <<crc, store, roster, slots, node_key, node_keys, workers,
                 cursors, pos, processed, acquired, scans, declined,
                 scanStart, prePass, extInPass, cleanSince, hadStale,
                 abortedScan, origin, quiet, events>>

\* the position after node number p of the for loop of line 57: the next
\* node, or back at the test of line 56
AfterNode(p) ==
  IF p < Len(MasterOrder) THEN [pc |-> "for", pos |-> p + 1]
  ELSE [pc |-> "while", pos |-> 0]

\* lines 58-59
Skip ==
  /\ pc = "for"
  /\ SkipNode(cursors[MasterOrder[pos]])
  /\ pc' = AfterNode(pos).pc
  /\ pos' = AfterNode(pos).pos
  /\ last' = NoExchange
  /\ UNCHANGED <<crc, store, roster, slots, node_key, node_keys, workers,
                 cursors, conns, processed, acquired, released, scans,
                 declined, scanStart, prePass, extInPass, cleanSince,
                 hadStale, abortedScan, origin, quiet, events>>

RECURSIVE SetToSeq(_)
SetToSeq(S) ==
  IF S = {} THEN <<>>
  ELSE LET x == CHOOSE y \in S : TRUE IN <<x>> \o SetToSeq(S \ {x})

\* What a node may answer to SCAN <cursor>: a page of its matching keys and
\* the next cursor.  The chain is finite, and it ends only when every key
\* present since the scan began has been returned at least once.
ScanReplies(node, cursor) ==
  LET at == cursor[2]
      here == Present(store, node)
      owed == (here \cap scanStart) \ scans[node].keys
  IN {r \in [next : 0 .. MaxCursor, page : {SetToSeq(K) : K \in SUBSET here}] :
        /\ r.next \in {0, at + 1}
        /\ r.next = 0 => \A k \in owed : \E i \in 1 .. Len(r.page) : r.page[i] = k}

\* ---------------------------------------------- Scrub Handler, lines 92-112
\* a plausible slip: sinterstore(name, set_key), the entry is overwritten
\* with the liveness set
ScrubCommand_Copy(name) ==
  LET set_key == SetKey(node_keys[keyslot(name)])
  IN [dest |-> name, a |-> set_key, b |-> set_key]

\* a plausible slip: one liveness set for the whole cluster, at the first
\* candidate key
ScrubCommand_OneSet(name) ==
  [dest |-> name, a |-> SetKey(Str(1)), b |-> name]

\* lines 105-107: the command queued for one name
ScrubCommand(name) ==
  LET set_key == SetKey(node_keys[keyslot(name)])
  IN [dest |-> name, a |-> set_key, b |-> name]

\* lines 82-90, 97-98: the pipeline's pool hands out the connection that
\* map_cas_page passed to the handler, whatever the command
PipelineNode(conn) == conn

\* one queued command executed by the node the pipeline is connected to
Execute(st, node, cmd) ==
  IF Accepts(node, {cmd.dest, cmd.a, cmd.b})
  THEN sinterstore(st, cmd.dest, cmd.a, cmd.b)
  ELSE st

RECURSIVE ExecutePipeline(_, _, _, _)
\* the first n commands of the page's pipeline, in order
ExecutePipeline(st, node, names, n) ==
  IF n = 0 THEN st
  ELSE Execute(ExecutePipeline(st, node, names, n - 1), node,
               ScrubCommand(names[n]))

Rejected(node, names) ==
  \E i \in 1 .. Len(names) :
     LET cmd == ScrubCommand(names[i]) IN ~Accepts(node, {cmd.dest, cmd.a, cmd.b})

Range(q) == {q[i] : i \in 1 .. Len(q)}

\* a plausible slip: the pages are counted, not their keys
AddProcessed_Pages(p, count) == p + 1

\* line 109
AddProcessed(p, count) == p + count

\* One exchange with a node: the cursor sent at line 64, the node the page's
\* pipeline was sent to, the commands of it that this node was sent before
\* an exception, if any, and the names they carry, the
\* value of method(resp, conn) at line 77 (FALSE if it raised); whether the
\* Workers hash differed by then from the roster this pass read, and whether
\* another client had written an entry.
Exchange(node, sent, page, n, ok) ==
  [node |-> node, sent |-> sent, ok |-> ok, via |-> PipelineNode(node),
   cmds |-> {ScrubCommand(page[i]) : i \in 1 .. n},
   names |-> {page[i] : i \in 1 .. n},
   stale |-> roster # workers, ext |-> extInPass]

\* the node's record after one more SCAN call, `counted` names added to processed
Called(sc, node, page, counted) ==
  [sc EXCEPT ![node] = [calls |-> @.calls + 1, keys |-> @.keys \cup Range(page),
                        delivered |-> @.delivered + Len(page),
                        count |-> @.count + counted]]

\* lines 61-78 for one node: SCAN, parse, Indexer.process, cursor update
ScanPage ==
  /\ pc = "for"
  /\ LET node == MasterOrder[pos] IN
     /\ ~SkipNode(cursors[node])
     /\ \E r \in ScanReplies(node, cursors[node]) :
          /\ store' = ExecutePipeline(store, PipelineNode(node), r.page,
                                      Len(r.page))
          /\ last' = Exchange(node, cursors[node], r.page, Len(r.page),
                            ~Rejected(PipelineNode(node), r.page))
          /\ IF Rejected(PipelineNode(node), r.page)
             THEN /\ pc' = Uncaught("scan")
                  /\ scans' = Called(scans, node, r.page, 0)
                  /\ UNCHANGED <<cursors, pos, processed>>
             ELSE /\ pc' = AfterNode(pos).pc
                  /\ processed' = AddProcessed(processed, Len(r.page))
                  /\ scans' = Called(scans, node, r.page, processed' - processed)
                  /\ cursors' = [cursors EXCEPT ![node] = ParseCursor(r.next)]
                  /\ pos' = AfterNode(pos).pos
  /\ UNCHANGED <<crc, roster, slots, node_key, node_keys, workers, conns,
                 acquired, released, declined, scanStart, prePass, extInPass,
                 cleanSince, hadStale, abortedScan, origin, quiet, events>>

\* map_cas_page with a handler other than Indexer.process: line 77 with
\* method(resp, conn) false.  Line 78 is not executed, so the cursor stays,
\* and the node answers the same request again in a later round.
PageDeclined ==
  /\ pc = "for"
  /\ LET node == MasterOrder[pos] IN
     /\ ~SkipNode(cursors[node])
     /\ Cardinality(declined) < MaxDeclined
     /\ node \notin declined
     /\ \E r \in ScanReplies(node, cursors[node]) :
          /\ last' = Exchange(node, cursors[node], r.page, 0, FALSE)
          /\ scans' = Called(scans, node, r.page, 0)
     /\ declined' = declined \cup {node}
  /\ pc' = AfterNode(pos).pc
  /\ pos' = AfterNode(pos).pos
  /\ UNCHANGED <<crc, store, roster, slots, node_key, node_keys, workers,
                 cursors, conns, processed, acquired, released, scanStart,
                 prePass, extInPass, cleanSince, hadStale, abortedScan,
                 origin, quiet, events>>

\* line 70 or 72 raises: the node is unreachable
ScanFail ==
  /\ pc = "for"
  /\ ~SkipNode(cursors[MasterOrder[pos]])
  /\ pc' = Uncaught("scan")
  /\ UNCHANGED <<crc, store, roster, slots, node_key, node_keys, workers,
                 cursors, conns, pos, processed, acquired, released, scans,
                 last, declined, scanStart, prePass, extInPass, cleanSince,
                 hadStale, abortedScan, origin, quiet, events>>

\* line 108 raises: the connection breaks while the pipeline executes, after
\* the node has executed some prefix of it
ProcessFail ==
  /\ pc = "for"
  /\ LET node == MasterOrder[pos] IN
     /\ ~SkipNode(cursors[node])
     /\ \E r \in ScanReplies(node, cursors[node]) :
          /\ r.page # <<>>
          /\ \E n \in 0 .. Len(r.page) :
               /\ store' = ExecutePipeline(store, PipelineNode(node), r.page, n)
               /\ last' = Exchange(node, cursors[node], r.page, n, FALSE)
               /\ scans' = Called(scans, node, r.page, 0)
  /\ pc' = Uncaught("scan")
  /\ UNCHANGED <<crc, roster, slots, node_key, node_keys, workers, cursors,
                 conns, pos, processed, acquired, released, declined,
                 scanStart, prePass, extInPass, cleanSince, hadStale,
                 abortedScan, origin, quiet, events>>

\* ------------------------------------------------- Cleanup, lines 118-121
\* a plausible slip: line 120 deletes node_key itself, which names no set
CleanupPipeline_BareKey(st) == st

\* lines 119-120
CleanupPipeline(st) ==
  [k \in Keys |-> IF k \in RepSetKeys THEN delete(st, k)[k] ELSE st[k]]

Cleanup ==
  /\ pc = "cleanup"
  /\ store' = CleanupPipeline(store)
  /\ pc' = "done"
  /\ cleanSince' = (~extInPass /\ roster = workers)
  /\ UNCHANGED <<crc, roster, slots, node_key, node_keys, workers, cursors,
                 conns, pos, processed, acquired, released, scans, last,
                 declined, scanStart, prePass, extInPass, hadStale,
                 abortedScan, origin, quiet, events>>

\* ---------------------------------------------------- the script run again
Ended == pc \in {"done", "failed_snapshot", "failed_scan"}

Restart ==
  /\ Ended
  /\ pc' = "resolve"
  /\ slots' = Slots
  /\ node_key' = 0
  /\ node_keys' = EmptyMap
  /\ workers' = {}
  /\ cursors' = [n \in Masters |-> StartSentinel]
  /\ conns' = {}
  /\ pos' = 0
  /\ processed' = 0
  /\ acquired' = 0
  /\ released' = 0
  /\ scans' = NoScans
  /\ last' = NoExchange
  /\ declined' = {}
  /\ scanStart' = {}
  /\ prePass' = CasPart(store)
  /\ extInPass' = FALSE
  /\ hadStale' = FALSE
  /\ abortedScan' = (pc = "failed_scan")
  /\ origin' = IF pc = "failed_scan" /\ quiet THEN origin ELSE CasPart(store)
  /\ quiet' = TRUE
  /\ UNCHANGED <<crc, store, roster, cleanSince, events>>

\* ------------------------------------------------------- the environment
\* the worker registry changes the Workers hash
RosterChange ==
  /\ events < MaxExternalEvents
  /\ events' = events + 1
  /\ \E ws \in SUBSET WorkerIds : ws # roster /\ roster' = ws
  /\ cleanSince' = FALSE
  /\ quiet' = FALSE
  /\ origin' = prePass
  /\ UNCHANGED <<pc, crc, store, slots, node_key, node_keys, workers, cursors,
                 conns, pos, processed, acquired, released, scans, last,
                 declined, scanStart, prePass, extInPass, hadStale,
                 abortedScan>>

\* a cache writer records that a worker holds a digest
ExternalAdd ==
  /\ events < MaxExternalEvents
  /\ events' = events + 1
  /\ \E d \in Digests, w \in WorkerIds : store' = sadd(store, CasName(d), {w})
  /\ extInPass' = TRUE
  /\ cleanSince' = FALSE
  /\ quiet' = FALSE
  /\ origin' = prePass
  /\ UNCHANGED <<pc, crc, roster, slots, node_key, node_keys, workers,
                 cursors, conns, pos, processed, acquired, released, scans,
                 last, declined, scanStart, prePass, hadStale, abortedScan>>

Next ==
  \/ Resolve
  \/ Snapshot
  \/ Acquire
  \/ RoundStart
  \/ ScanReturn
  \/ Skip
  \/ ScanPage
  \/ ScanFail
  \/ ProcessFail
  \/ Cleanup
  \/ Restart
  \/ RosterChange
  \/ ExternalAdd

Spec == Init /\ [][Next]_vars

\* map_cas_page called with any handler
HandlerNext ==
  \/ Next
  \/ PageDeclined

HandlerSpec == Init /\ [][HandlerNext]_vars

\* The script is one thread that always executes its next statement.
ScriptStep ==
  \/ Resolve
  \/ Snapshot
  \/ Acquire
  \/ RoundStart
  \/ ScanReturn
  \/ Skip
  \/ ScanPage
  \/ Cleanup

FairSpec == Spec /\ WF_vars(ScriptStep)

\* ================================================================ claims
Scanning == pc \in {"while", "for"}
AllAtEnd == \A n \in Masters : cursors[n] = EndSentinel

\* C1: when a pass has completed with no external write in it, every index
\* entry's member set is its member set at the start of the pass intersected
\* with the roster the pass read.
C1_PassIntersectsRoster ==
  (pc = "done" /\ ~extInPass) =>
     \A k \in CasKeys : store[k] = prePass[k] \cap workers

\* a completed pass that narrowed digestA and left digestB, already a subset
C1_Witness ==
  /\ pc = "done"
  /\ ~extInPass
  /\ workers = {"w2"}
  /\ prePass[CasName("digestA")] = {"w1", "w2"}
  /\ store[CasName("digestA")] = {"w2"}
  /\ store[CasName("digestB")] = {"w2"}

\* C2: every step in which a page is scrubbed leaves each scrubbed entry
\* equal to its value before the step intersected with the roster read at
\* line 33, whatever the Workers hash holds by then.
C2_ScrubIntersectsSnapshot ==
  [][(pc = "for" /\ scans' # scans) =>
        \A k \in last'.names : store'[k] = store[k] \cap workers]_vars

\* an entry scrubbed after the Workers hash changed kept a worker that the
\* changed hash no longer lists
C2_Witness ==
  /\ Scanning
  /\ last.stale
  /\ \E k \in last.names : store[k] # {} /\ ~(store[k] \subseteq roster)

\* C3: when the loop of line 26 has ended, every slot has a representative,
\* the representative hashes to the slot, and no smaller counter value does.
C3_FirstRepresentative ==
  (slots = {}) =>
     /\ DOMAIN node_keys = Slots
     /\ \A s \in Slots :
          /\ node_keys[s] \in Candidates
          /\ keyslot(node_keys[s]) = s
          /\ \A j \in 1 .. node_keys[s][2] - 1 : keyslot(Str(j)) # s

\* resolution that had to pass over a candidate of an already claimed slot
C3_Witness ==
  /\ slots = {}
  /\ node_key = 3
  /\ \E s \in Slots : node_keys[s] = Str(3)

\* C4: once lines 39-43 have run, the set at every slot's representative key
\* holds exactly the roster read at line 33.
C4_LivenessSetIsRoster ==
  (pc \in {"map", "failed_snapshot"}) =>
     \A s \in Slots : store[SetKey(node_keys[s])] = workers

\* a snapshot over liveness sets that an aborted pass left with another roster
C4_Witness == pc = "map" /\ hadStale

\* C5: after a completed pass, as long as neither the Workers hash nor an
\* entry has been written by another client since that pass started, no step
\* of a later pass changes an index entry.
C5_SecondPassChangesNothing ==
  [][(cleanSince /\ cleanSince') => CasPart(store') = CasPart(store)]_vars

\* a further pass that scrubbed entries and reached cleanup, nothing having
\* changed since the pass before it completed
C5_Witness ==
  /\ pc = "cleanup"
  /\ cleanSince
  /\ processed > 0

\* C6: whenever map_cas_page has been left, by return or by an exception,
\* every connection it acquired has been released.
C6_ConnectionsReleasedOnEveryExit ==
  (pc \in {"cleanup", "done", "failed_scan"}) =>
     /\ acquired = Cardinality(Masters)
     /\ released = acquired
     /\ conns = {}

\* C7: a pass that reads an empty roster does not fail, and when it is done
\* every index entry's member set is empty.
C7_EmptyRosterPassCompletes ==
  /\ pc # "failed_snapshot"
  /\ (pc = "done" /\ workers = {} /\ ~extInPass) =>
        \A k \in CasKeys : store[k] = {}

\* C8: after cleanup no "{...}:intersecting-workers" key exists.
C8_NoLivenessSetAfterCleanup ==
  (pc = "done") => \A k \in SetKeys : store[k] = {}

\* cleanup at the end of a pass whose snapshot had found leftover sets
C8_Witness == pc = "done" /\ hadStale /\ processed > 0

\* node n was asked once and answered cursor 0 with no keys
EmptyFirstAnswer(n) ==
  scans[n].calls = 1 /\ scans[n].keys = {} /\ cursors[n] = EndSentinel

\* C9: a node whose first SCAN answer is cursor 0 with no keys is not
\* scanned again in that pass, has added nothing to processed, and holds no
\* connection once map_cas_page has returned.
C9_EmptyNodeScannedOnce ==
  /\ [](\A n \in Masters : EmptyFirstAnswer(n) =>
          /\ scans[n].count = 0
          /\ (pc \in {"cleanup", "done"} => conns = {}))
  /\ [][\A n \in Masters : (EmptyFirstAnswer(n) /\ pc' # "resolve") =>
          scans'[n] = scans[n] /\ cursors'[n] = cursors[n]]_vars

\* a pass that completed with one node empty and the other holding entries
C9_Witness ==
  /\ pc = "done"
  /\ processed > 0
  /\ \E n \in Masters : EmptyFirstAnswer(n)

\* C10: a scan that is not broken off by an exception returns, it returns
\* only with every cursor at 0, and with every cursor at 0 it starts no
\* further round.
C10_ScanEndsWhenAllCursorsEnd ==
  /\ Scanning ~> (pc \in {"cleanup", "failed_scan"})
  /\ [][(Scanning /\ pc' = "cleanup") => AllAtEnd]_vars
  /\ [][(pc = "while" /\ AllAtEnd) => pc' # "for"]_vars

\* a scan that returned after some node's chain ran to its full length
C10_Witness ==
  /\ pc = "cleanup"
  /\ \E n \in Masters : scans[n].calls = MaxCursor + 1

\* the cursors a node can return to a SCAN that carried cursor c
Returnable(c) ==
  {EndSentinel} \cup {ParseCursor(c[2] + 1) : x \in {y \in {0} : c[2] < MaxCursor}}

\* the step makes an exchange with node n
ExchangeWith(n) == scans'[n].calls = scans[n].calls + 1 /\ last'.node = n

\* C11: what the handler returns selects what map_cas_page does with the
\* node.  After True the node's cursor is the cursor the node returned.  After
\* False the node's scan is aborted: the node is sent no further SCAN in that
\* call of map_cas_page.
C11_HandlerResultSelects ==
  /\ [][\A n \in Masters : (ExchangeWith(n) /\ last'.ok) =>
          cursors'[n] \in Returnable(last'.sent)]_vars
  /\ [][\A n \in Masters : (n \in declined /\ pc' # "resolve") =>
          scans'[n].calls = scans[n].calls]_vars

LivenessSets == {k \in SetKeys : store[k] # {}}
OnePerShard ==
  \A s \in Slots : Cardinality({k \in LivenessSets : keyslot(k) = s}) = 1

C14_ScrubCommandOnScannedNode ==
  \A c \in last.cmds :
     /\ c.dest \in CasKeys
     /\ c.b = c.dest
     /\ c.a = SetKey(node_keys[keyslot(c.dest)])
     /\ keyslot(c.a) = keyslot(c.dest)
     /\ last.via = last.node
     /\ c.dest \in scans[last.node].keys
     /\ SlotOwner(keyslot(c.dest)) = last.via

\* a page of the second node whose commands all went through
C14_Witness ==
  /\ Scanning
  /\ last.node = "n2"
  /\ last.ok
  /\ last.cmds # {}

\* C15: in map_cas_page every node's cursor is "0" until the node's first
\* SCAN; every SCAN sent to a node carries the node's cursor, which is "0" or
\* the cursor the node returned last; the cursor changes only in an exchange
\* with the node in which the handler was called, once, with the page, and
\* returned True, and it becomes a cursor the node can return to the one sent;
\* a node whose cursor is 0 is sent no SCAN; in one round of the loop of
\* line 56 the nodes are visited in order, each at most once.
C15_CursorProgression ==
  /\ [](\A n \in Masters :
          (Scanning /\ scans[n].calls = 0) => cursors[n] = StartSentinel)
  /\ [][/\ \A n \in Masters :
             IF ExchangeWith(n)
             THEN /\ last'.sent = cursors[n]
                  /\ cursors[n] # EndSentinel
                  /\ pc = "for" /\ MasterOrder[pos] = n
                  /\ pc' \in {"while", "failed_scan"} \/ pos' = pos + 1
                  /\ IF last'.ok
                     THEN /\ cursors'[n] \in Returnable(last'.sent)
                          /\ scans'[n].count - scans[n].count =
                               scans'[n].delivered - scans[n].delivered
                     ELSE cursors'[n] = cursors[n]
             ELSE /\ Scanning => cursors'[n] = cursors[n]
                  /\ (pc' # "resolve") => scans'[n].calls = scans[n].calls
        /\ (pc = "for" /\ pc' = "for") => pos' >= pos]_vars

\* a node's second SCAN carried the cursor its first SCAN returned, and
\* ended the node's chain
C15_Witness ==
  /\ Scanning
  /\ last.ok
  /\ last.sent = ParseCursor(1)
  /\ scans[last.node].calls = 2
  /\ cursors[last.node] = EndSentinel

\* C16: an iteration of the scan that raises ends the script there: nothing
\* is retried, no SCAN and no sinterstore is sent after it, cleanup is not
\* run, and every liveness set written at lines 39-43 stays as written until
\* the script is run again.
C16_ScanErrorAbortsPass ==
  /\ [][(pc = "for" /\ pc' \notin {"for", "while"}) => pc' = "failed_scan"]_vars
  /\ [][(pc = "failed_scan") =>
          /\ pc' \in {"failed_scan", "resolve"}
          /\ (pc' = "failed_scan") => scans' = scans /\ last' = last
          /\ (events' = events) => store' = store
          /\ \A k \in SetKeys : store'[k] = store[k]]_vars
  /\ [](pc = "failed_scan" =>
          \A s \in Slots : store[SetKey(node_keys[s])] = workers /\ workers # {})

\* the connection broke in the pipeline of a later page, part of it executed
C16_Witness ==
  /\ pc = "failed_scan"
  /\ processed > 0
  /\ ~last.ok
  /\ last.names # {}

\* C17: when MaxCounter candidate keys have been hashed and some slot still
\* has no representative, the loop of line 26 has been left with a fatal
\* error.
C17_ResolutionStopsWithError ==
  (node_key = MaxCounter /\ slots # {}) => pc = "failed_resolve"

RECURSIVE Delivered(_)
\* the sizes of all pages that the nodes of N returned in this pass, summed
Delivered(N) ==
  IF N = {} THEN 0
  ELSE LET n == CHOOSE x \in N : TRUE IN scans[n].delivered + Delivered(N \ {n})

\* C18: processed is 0 until a page has been handled; in a run it never
\* decreases; it changes only in an exchange whose whole pipeline the node
\* executed, and then by the size of that page; when map_cas_page has
\* returned it is the sum of the sizes of all pages the nodes returned.
C18_ProcessedCountsDeliveredKeys ==
  /\ [](/\ (\A n \in Masters : scans[n].calls = 0) => processed = 0
        /\ (pc \in {"cleanup", "done"}) => processed = Delivered(Masters))
  /\ [][(pc' # "resolve") =>
          /\ processed' >= processed
          /\ (processed' # processed) =>
                \E n \in Masters :
                   /\ ExchangeWith(n)
                   /\ last'.ok
                   /\ processed' - processed =
                        scans'[n].delivered - scans[n].delivered
                   /\ processed' - processed = Cardinality(last'.cmds)
                   /\ \A k \in last'.names : store'[k] = store[k] \cap workers]_vars

\* a completed pass in which some node returned a key in two pages
C18_Witness ==
  /\ pc = "done"
  /\ \E n \in Masters : scans[n].delivered > Cardinality(scans[n].keys)
  /\ processed = Delivered(Masters)

\* C19: when a pass has ended by an exception in the scan, with no external
\* write in it, every index entry is as it was when the pass started or is
\* that value intersected with the roster the pass read; and when the script,
\* run again after such passes with no roster change and no external write
\* in between, has completed, every entry is what one pass completed from
\* the first start would have left: its value then, intersected with the
\* roster.
C19_AbortThenRerunEqualsOnePass ==
  /\ (pc = "failed_scan" /\ ~extInPass) =>
        \A k \in CasKeys : store[k] \in {prePass[k], prePass[k] \cap workers}
  /\ (pc = "done" /\ quiet) =>
        \A k \in CasKeys : store[k] = origin[k] \cap workers

\* a pass completed after a pass that had scrubbed some entries and was
\* then aborted
C19_Witness ==
  /\ pc = "done"
  /\ quiet
  /\ origin # prePass
  /\ \E k \in CasKeys : store[k] # origin[k]

\* C20: whatever other clients add to index entries and whenever, no step
\* of the script after its snapshot removes from an entry a member that is
\* in the roster read at line 33.
C20_LiveWorkerNeverRemoved ==
  [][(events' = events /\ pc \in {"map", "while", "for", "cleanup"}) =>
        \A k \in CasKeys : (store[k] \cap workers) \subseteq store'[k]]_vars

\* an entry scrubbed after another client added a worker of the roster to it
\* still holds that worker
C20_Witness ==
  /\ Scanning
  /\ last.ext
  /\ last.ok
  /\ \E k \in last.names : \E w \in workers : w \in store[k] /\ w \notin prePass[k]
====
